---- MODULE Spec2Model ----
(***************************************************************************)
(* Harbor CLI: the inter-pane communication core of src/index.ts           *)
(* (getSessionInfo, checkAccess, sendToPane, capturePane, execInPane and   *)
(* the hail / survey / parley / whoami / context commands) and the life    *)
(* of the tmux session (launch, anchor, scuttle).                          *)
(*                                                                         *)
(* Strings are sequences of symbols.  The symbols of a pane capture are    *)
(*   "S"  the start marker  <<<HARBOR_START_{markerId}>>>  of this call    *)
(*   "E"  the end marker    <<<HARBOR_END_{markerId}>>>    of this call    *)
(*   "So" and "Eo" the two markers of a call with another markerId         *)
(*   "nl" a newline, "sp" a blank, "q" a single quote, "$" the prompt,     *)
(*   and any other symbol ("echo", "x", "y", "5", ...) a run of printable  *)
(*   characters that holds no blank, quote or marker.                      *)
(***************************************************************************)
EXTENDS Integers, Sequences, FiniteSets, TLC

VARIABLES
  registry,   \* the content of .harbor/session.json
  caller,     \* process.env.HARBOR_SERVICE
  op,         \* the command invoked: "hail", "survey", "parley", ...
  target,     \* its <service> argument
  command,    \* its <command> argument
  program,    \* what runs in the target pane
  pane,       \* the text of the target pane
  pc,         \* where the invocation stands
  access,     \* what checkAccess returned
  tmuxCalls,  \* the tmux commands issued so far, in order
  markerId,   \* the token of this execInPane call
  capture,    \* the stdout of capture-pane
  result,     \* what execInPane / capturePane returned
  printed,    \* what the command wrote
  exitCode,   \* -1 while the process runs
  reads,      \* what each getSessionInfo() of the invocation found, in order
  peer,       \* a second execInPane running against the same pane
  life,       \* the tmux session and the launch, anchor and scuttle processes
  config      \* harbor.json as validateConfig is given it

vars == <<registry, caller, op, target, command, program, pane, pc, access,
          tmuxCalls, markerId, capture, result, printed, exitCode, reads,
          peer, life, config>>

(***************************************************************************)
(* Names.  ServiceNames are the names a configuration gives its services;  *)
(* ObjectPrototypeKeys stands for the property names every object parsed   *)
(* by JSON.parse inherits from Object.prototype (constructor, toString,    *)
(* valueOf, hasOwnProperty, ...); "ghost" is a name that is neither.       *)
(***************************************************************************)
ServiceNames == {"web", "repl", "api"}

ObjectPrototypeKeys == {"constructor"}

Names == ServiceNames \cup ObjectPrototypeKeys \cup {"ghost"}

Undefined == "undefined"

\* process.env.HARBOR_SERVICE: unset, the empty string, or a name
Callers == {Undefined, ""} \cup Names

(***************************************************************************)
(* The registry file .harbor/session.json.  file is "missing" (no file),   *)
(* "corrupt" (JSON.parse throws) or "ok"; services maps each service name  *)
(* to its SessionServiceInfo.  canAccess is a record: has tells whether    *)
(* the field is present, list holds its elements.                          *)
(***************************************************************************)
NoCanAccess == [has |-> FALSE, list |-> {}]

SessionServiceInfo(k, w, ca) ==
  [window |-> w, target |-> <<"dev", k>>, canAccess |-> ca]

WindowOf(k) == CASE k = "web" -> 1 [] k = "repl" -> 2 [] OTHER -> 3

\* the canAccess lists validateConfig lets through: known services, not itself
CanAccessChoices(K, k) ==
  {NoCanAccess} \cup {[has |-> TRUE, list |-> L] : L \in SUBSET (K \ {k})}

ServiceMaps(K) ==
  {[k \in K |-> SessionServiceInfo(k, WindowOf(k), ca[k])] :
      ca \in {f \in [K -> UNION {CanAccessChoices(K, k) : k \in K}] :
                 \A k \in K : f[k] \in CanAccessChoices(K, k)}}

SessionInfos ==
  {[file |-> "ok", session |-> "dev", socket |-> "harbor-dev", services |-> m] :
      m \in UNION {ServiceMaps(K) : K \in (SUBSET ServiceNames) \ {{}}}}

NoServices == [k \in {} |-> NoCanAccess]

MissingFile ==
  [file |-> "missing", session |-> "", socket |-> "", services |-> NoServices]

CorruptFile ==
  [file |-> "corrupt", session |-> "", socket |-> "", services |-> NoServices]

Registries == SessionInfos \cup {MissingFile, CorruptFile}

(***************************************************************************)
(* getSessionInfo: null when the file does not exist or does not parse.    *)
(***************************************************************************)
getSessionInfo(reg) ==
  IF reg.file = "ok" THEN [null |-> FALSE, info |-> reg]
                     ELSE [null |-> TRUE, info |-> MissingFile]

(***************************************************************************)
(* JavaScript property read  obj[key]  on an object made by JSON.parse:    *)
(* an own property if there is one, else what Object.prototype has under   *)
(* that name (a function: truthy, with no window, target or canAccess),    *)
(* else undefined.                                                         *)
(***************************************************************************)
PrototypeMember ==
  [window |-> 0, target |-> <<Undefined, Undefined>>, canAccess |-> NoCanAccess]

PropertyRead(services, key) ==
  IF key \in DOMAIN services
    THEN [truthy |-> TRUE, value |-> services[key]]
    ELSE IF key \in ObjectPrototypeKeys
      THEN [truthy |-> TRUE, value |-> PrototypeMember]
      ELSE [truthy |-> FALSE, value |-> PrototypeMember]

(***************************************************************************)
(* checkAccess(target), with the registry file and HARBOR_SERVICE it reads *)
(***************************************************************************)
Verdict(allowed, kind, c, t, avail) ==
  [allowed |-> allowed, kind |-> kind, caller |-> c, target |-> t,
   available |-> avail]

Allowed == Verdict(TRUE, "ok", "", "", {})

checkAccessIgnoringList(reg, c, t) ==
  LET s == getSessionInfo(reg) IN
  IF s.null THEN Verdict(FALSE, "NoSession", "", "", {})
  ELSE IF ~PropertyRead(s.info.services, t).truthy
    THEN Verdict(FALSE, "UnknownService", "", t, DOMAIN s.info.services)
    ELSE Allowed

checkAccess(reg, c, t) ==
  LET s == getSessionInfo(reg) IN
  IF s.null THEN Verdict(FALSE, "NoSession", "", "", {})
  ELSE
    LET targetService == PropertyRead(s.info.services, t) IN
    IF ~targetService.truthy
      THEN Verdict(FALSE, "UnknownService", "", t, DOMAIN s.info.services)
    ELSE IF c = Undefined \/ c = "" THEN Allowed
    ELSE
      LET callerInfo == PropertyRead(s.info.services, c) IN
      IF ~callerInfo.truthy THEN Allowed
      ELSE
        LET canAccess == IF callerInfo.value.canAccess.has
                           THEN callerInfo.value.canAccess.list ELSE {} IN
        IF t \notin canAccess
          THEN Verdict(FALSE, "AccessDenied", c, t, {})
          ELSE Allowed

NoVerdict == Verdict(FALSE, "none", "", "", {})


(***************************************************************************)
(* Strings                                                                 *)
(***************************************************************************)
Min(A) == CHOOSE a \in A : \A b \in A : a <= b

Max(A) == CHOOSE a \in A : \A b \in A : b <= a

\* what String.prototype.trim removes
IsWhitespace(c) == c \in {"sp", "nl"}

\* String.prototype.trim
Trim(s) ==
  LET keep == {i \in 1..Len(s) : ~IsWhitespace(s[i])} IN
  IF keep = {} THEN <<>> ELSE SubSeq(s, Min(keep), Max(keep))

\* String.prototype.includes
Includes(s, pat) ==
  \E i \in 1..(Len(s) - Len(pat) + 1) : SubSeq(s, i, i + Len(pat) - 1) = pat

\* String.prototype.split('\n')
RECURSIVE SplitLines(_)
SplitLines(s) ==
  LET nls == {i \in 1..Len(s) : s[i] = "nl"} IN
  IF nls = {} THEN <<s>>
  ELSE <<SubSeq(s, 1, Min(nls) - 1)>> \o SplitLines(SubSeq(s, Min(nls) + 1, Len(s)))

\* Array.prototype.join('\n')
RECURSIVE JoinLines(_)
JoinLines(lines) ==
  IF lines = <<>> THEN <<>>
  ELSE IF Len(lines) = 1 THEN lines[1]
  ELSE lines[1] \o <<"nl">> \o JoinLines(Tail(lines))

(***************************************************************************)
(* execInPane: the markers, the regular expression                         *)
(*   escapeRegex(startMarker) \n ([\s\S]*?) escapeRegex(endMarker)         *)
(* and the clean-up of what it matched.  escapeRegex makes both markers    *)
(* literals, so the expression matches at the leftmost position that holds *)
(* the start marker, then a newline, then (lazily) anything up to the next *)
(* end marker.                                                             *)
(***************************************************************************)
Prompt == <<"$", "sp">>

startMarker == <<"S">>

endMarker == <<"E">>

EchoOf(marker) == <<"echo", "sp", "q">> \o marker \o <<"q">>

NoOutput == <<"(no output)">>

NoMatch == [matched |-> FALSE, group |-> <<>>]

\* the expression without its \n: the start marker anywhere
regexMatchNoNewline(s) ==
  LET starts == {i \in 1..Len(s) :
                   /\ s[i] = "S"
                   /\ \E j \in (i + 1)..Len(s) : s[j] = "E"} IN
  IF starts = {} THEN NoMatch
  ELSE LET i == Min(starts)
           j == Min({k \in (i + 1)..Len(s) : s[k] = "E"}) IN
       [matched |-> TRUE, group |-> SubSeq(s, i + 1, j - 1)]

\* an expression that leaves the markerId out: the markers of any call
regexMatchAnyToken(s) ==
  LET starts == {i \in 1..(Len(s) - 1) :
                   /\ s[i] \in {"S", "So"}
                   /\ s[i + 1] = "nl"
                   /\ \E j \in (i + 2)..Len(s) : s[j] \in {"E", "Eo"}} IN
  IF starts = {} THEN NoMatch
  ELSE LET i == Min(starts)
           j == Min({k \in (i + 2)..Len(s) : s[k] \in {"E", "Eo"}}) IN
       [matched |-> TRUE, group |-> SubSeq(s, i + 2, j - 1)]

regexMatch(s) ==
  LET starts == {i \in 1..(Len(s) - 1) :
                   /\ s[i] = "S"
                   /\ s[i + 1] = "nl"
                   /\ \E j \in (i + 2)..Len(s) : s[j] = "E"} IN
  IF starts = {} THEN NoMatch
  ELSE LET i == Min(starts)
           j == Min({k \in (i + 2)..Len(s) : s[k] = "E"}) IN
       [matched |-> TRUE, group |-> SubSeq(s, i + 2, j - 1)]

\* the predicate of lines.filter
KeepLine(line) ==
  LET trimmed == Trim(line) IN
  /\ trimmed # <<>>
  /\ ~Includes(trimmed, EchoOf(startMarker))
  /\ ~Includes(trimmed, EchoOf(endMarker))

\* a return without  || '(no output)'
OrNoOutputKeepsEmpty(s) == s

OrNoOutput(s) == IF s = <<>> THEN NoOutput ELSE s

\* a fallback that returns the trimmed capture whatever it is
FallbackKeepsEmpty(stdout) == Trim(stdout)

Fallback(stdout) == OrNoOutput(Trim(stdout))

CleanUp(rawOutput) ==
  OrNoOutput(Trim(JoinLines(SelectSeq(SplitLines(rawOutput), KeepLine))))

\* what execInPane returns for the text capture-pane printed
Extract(stdout) ==
  LET match == regexMatch(stdout) IN
  IF match.matched THEN CleanUp(match.group) ELSE Fallback(stdout)

(***************************************************************************)
(* Specification SpecAccess: checkAccess applied to every registry,        *)
(* caller identity and target.                                             *)
(***************************************************************************)
Nothing == [kind |-> "none", text |-> <<>>]

\* no second invocation, no session followed
NoPeer == [pc |-> "none"]

NoLife == [session |-> "none"]

\* no configuration followed
NoConfig == [services |-> "none"]

Idle ==
  /\ op = "none" /\ command = <<>> /\ program = "other" /\ pane = <<>>
  /\ pc = "idle" /\ tmuxCalls = <<>> /\ markerId = "" /\ capture = <<>>
  /\ result = <<>> /\ printed = Nothing /\ exitCode = -1
  /\ reads = <<>> /\ peer = NoPeer /\ life = NoLife /\ config = NoConfig

InitAccess ==
  /\ registry \in Registries
  /\ caller \in Callers
  /\ target \in Names
  /\ access = NoVerdict
  /\ Idle

CheckAccessCall ==
  /\ access = NoVerdict
  /\ access' = checkAccess(registry, caller, target)
  /\ reads' = Append(reads, registry)
  /\ UNCHANGED <<peer, life, config,
                 registry, caller, op, target, command, program, pane, pc,
                 tmuxCalls, markerId, capture, result, printed, exitCode>>

NextAccess == CheckAccessCall

SpecAccess == InitAccess /\ [][NextAccess]_vars

(***************************************************************************)
(* Claims about checkAccess (specification SpecAccess)                     *)
(***************************************************************************)
Checked == access # NoVerdict

Known(name) == registry.file = "ok" /\ name \in DOMAIN registry.services

\* the caller's canAccess list, an absent list counting as empty
ListOf(name) ==
  IF registry.services[name].canAccess.has
    THEN registry.services[name].canAccess.list ELSE {}

\* C1: for a caller and a target that are both keys of registry.services and
\* differ, checkAccess is allowed exactly when the target is in the caller's
\* canAccess list (absent list = empty), and otherwise it is denied with the
\* access-denied reason naming that caller and that target.
C1_AllowedIffInCanAccess ==
  (Checked /\ Known(caller) /\ Known(target) /\ target # caller) =>
     /\ access.allowed <=> target \in ListOf(caller)
     /\ ~access.allowed =>
          /\ access.kind = "AccessDenied"
          /\ access.caller = caller
          /\ access.target = target

C1_Witness ==
  /\ Checked /\ Known(caller) /\ Known(target) /\ target # caller
  /\ ~registry.services[caller].canAccess.has
  /\ access.kind = "AccessDenied"

\* C2: checkAccess is allowed for every known target whenever HARBOR_SERVICE
\* is absent, or present but not a key of registry.services.
C2_OutsideCallerAllowed ==
  (Checked /\ Known(target) /\ (caller = Undefined \/ ~Known(caller))) =>
     access.allowed

\* C3: the rules are evaluated in order: no registry gives the no-session
\* denial whatever caller and target are; a registry and a target that is no
\* key of services gives the unknown-service denial listing exactly the
\* registry's service names, for every caller; the access-denied reason
\* appears only when registry, target and caller are all known.
C3_RulesInOrder ==
  Checked =>
     /\ registry.file # "ok" => (~access.allowed /\ access.kind = "NoSession")
     /\ (registry.file = "ok" /\ ~Known(target)) =>
          /\ ~access.allowed
          /\ access.kind = "UnknownService"
          /\ access.target = target
          /\ access.available = DOMAIN registry.services
     /\ access.kind = "AccessDenied" => (Known(target) /\ Known(caller))

(***************************************************************************)
(* Specification SpecExtract: the extraction of execInPane applied to      *)
(* every capture of at most MaxLines lines.  capture-pane -p prints the    *)
(* pane line by line, each line ended by a newline.                        *)
(***************************************************************************)
MaxLines == 4

LineKinds ==
  { <<>>,                                      \* a blank line
    <<"sp">>,                                  \* a line of blanks
    <<"x">>,                                   \* output
    <<"sp", "y">>,                             \* indented output
    startMarker,                               \* the start marker, printed
    endMarker,                                 \* the end marker, printed
    <<"$", "sp">> \o EchoOf(startMarker),      \* the typed start-marker command
    <<"$", "sp">> \o EchoOf(endMarker),        \* the typed end-marker command
    <<"q">> \o startMarker \o <<"q">>,         \* the start marker printed quoted
    <<"q">> \o endMarker \o <<"q">> }          \* the end marker printed quoted

RECURSIVE Lines2Text(_)
Lines2Text(lines) ==
  IF lines = <<>> THEN <<>>
  ELSE lines[1] \o <<"nl">> \o Lines2Text(Tail(lines))

Captures ==
  {Lines2Text(ls) : ls \in UNION {[1..n -> LineKinds] : n \in 0..MaxLines}}

InitExtract ==
  /\ registry = MissingFile /\ caller = Undefined /\ target = "repl"
  /\ access = NoVerdict
  /\ op = "none" /\ command = <<>> /\ program = "other" /\ pane = <<>>
  /\ pc = "capture" /\ tmuxCalls = <<>> /\ markerId = ""
  /\ result = <<>> /\ printed = Nothing /\ exitCode = -1
  /\ reads = <<>> /\ peer = NoPeer /\ life = NoLife /\ config = NoConfig
  /\ capture \in Captures

ExtractCall ==
  /\ pc = "capture"
  /\ result' = Extract(capture)
  /\ pc' = "extracted"
  /\ UNCHANGED <<reads, peer, life, config,
                 registry, caller, op, target, command, program, pane, access,
                 tmuxCalls, markerId, capture, printed, exitCode>>

NextExtract == ExtractCall

SpecExtract == InitExtract /\ [][NextExtract]_vars

(***************************************************************************)
(* Specification SpecTokens: the same extraction applied to captures that  *)
(* also hold the markers an earlier execInPane call left in the pane.      *)
(***************************************************************************)
otherStartMarker == <<"So">>

otherEndMarker == <<"Eo">>

TokenLineKinds ==
  { <<"x">>,                                   \* output
    startMarker,                               \* the markers of this call
    endMarker,
    otherStartMarker,                          \* the markers of another call
    otherEndMarker,
    Prompt \o EchoOf(otherEndMarker),          \* its typed end-marker command
    Prompt \o EchoOf(startMarker) }            \* the typed start-marker command

TokenCaptures ==
  {Lines2Text(ls) : ls \in UNION {[1..n -> TokenLineKinds] : n \in 0..MaxLines}}

InitTokens ==
  /\ registry = MissingFile /\ caller = Undefined /\ target = "repl"
  /\ access = NoVerdict
  /\ op = "none" /\ command = <<>> /\ program = "other" /\ pane = <<>>
  /\ pc = "capture" /\ tmuxCalls = <<>> /\ markerId = ""
  /\ result = <<>> /\ printed = Nothing /\ exitCode = -1
  /\ reads = <<>> /\ peer = NoPeer /\ life = NoLife /\ config = NoConfig
  /\ capture \in TokenCaptures

SpecTokens == InitTokens /\ [][NextExtract]_vars


(***************************************************************************)
(* The target pane.  tmux send-keys types the keys and Enter into the      *)
(* pane: the terminal shows the typed line after the prompt, the program   *)
(* running there prints its answer and prompts again.  "repl" is the test  *)
(* REPL of the repository, "shell" a POSIX shell, "other" any program      *)
(* (its screen is whatever it draws).                                      *)
(***************************************************************************)
\* line.trim().split(/\s+/)
RECURSIVE Words(_)
Words(s) ==
  LET t == Trim(s)
      sps == {i \in 1..Len(t) : t[i] = "sp"} IN
  IF t = <<>> THEN <<>>
  ELSE IF sps = {} THEN <<t>>
  ELSE <<SubSeq(t, 1, Min(sps) - 1)>> \o Words(SubSeq(t, Min(sps) + 1, Len(t)))

\* args.join(' ')
RECURSIVE JoinWords(_)
JoinWords(ws) ==
  IF ws = <<>> THEN <<>>
  ELSE IF Len(ws) = 1 THEN ws[1]
  ELSE ws[1] \o <<"sp">> \o JoinWords(Tail(ws))

\* the test REPL: rl.on('line', ...)
ReplOutput(line) ==
  LET ws == Words(line) IN
  IF ws = <<>> THEN <<>>
  ELSE IF ws[1] = <<"echo">>
    THEN (IF Len(ws) = 1 THEN <<"(empty)">> ELSE JoinWords(Tail(ws))) \o <<"nl">>
  ELSE IF ws[1] = <<"add">>
    THEN (IF Len(ws) >= 3 /\ ws[2] = <<"2">> /\ ws[3] = <<"3">>
            THEN <<"2", "sp", "+", "sp", "3", "sp", "=", "sp", "5">>
            ELSE <<"Usage:", "sp", "add">>) \o <<"nl">>
  ELSE <<"Unknown", "sp", "command">> \o <<"nl">>

\* a shell: echo prints its arguments with the quotes removed
ShellOutput(line) ==
  LET ws == Words(line) IN
  IF ws = <<>> THEN <<>>
  ELSE IF ws[1] = <<"echo">>
    THEN SelectSeq(JoinWords(Tail(ws)), LAMBDA c : c # "q") \o <<"nl">>
  ELSE <<"command", "sp", "not", "sp", "found">> \o <<"nl">>

ProgramOutput(prog, line) ==
  CASE prog = "repl" -> ReplOutput(line)
    [] prog = "shell" -> ShellOutput(line)
    [] OTHER -> <<>>

\* the pane after tmux send-keys ... <keys> Enter
TypeLine(prog, text, keys) ==
  IF prog = "other" THEN text
  ELSE text \o keys \o <<"nl">> \o ProgramOutput(prog, keys) \o Prompt

\* screens of a pane whose program draws what it likes
OtherScreens ==
  { <<>>,
    <<"nl", "nl">>,
    <<"sp", "x", "nl", "nl">>,
    Lines2Text(<<startMarker, <<"x">>, <<>>, Prompt \o EchoOf(endMarker), endMarker>>),
    Lines2Text(<<<<"q">> \o startMarker \o <<"q">>, <<"x">>,
                 <<"q">> \o endMarker \o <<"q">>>>) }

\* what tmux capture-pane -p prints
Screens(prog, text) ==
  IF prog = "other" THEN OtherScreens ELSE {text \o <<"nl">>}

(***************************************************************************)
(* tmux commands                                                           *)
(***************************************************************************)
CaptureLines == 500

TmuxCall(cmd, socket, tgt, keys, marker, lines) ==
  [cmd |-> cmd, socket |-> socket, target |-> tgt, keys |-> keys,
   marker |-> marker, lines |-> lines, status |-> "pending"]

\* the first lines of sendToPane, capturePane and execInPane
Resolve(reg, t) ==
  LET s == getSessionInfo(reg) IN
  IF s.null
    THEN [ok |-> FALSE, error |-> "NoSession", socket |-> "",
          target |-> <<Undefined, Undefined>>]
  ELSE LET service == PropertyRead(s.info.services, t) IN
    IF ~service.truthy
      THEN [ok |-> FALSE, error |-> "UnknownService", socket |-> "",
            target |-> <<Undefined, Undefined>>]
      ELSE [ok |-> TRUE, error |-> "", socket |-> s.info.socket,
            target |-> service.value.target]

\* the keys of the three send-keys of execInPane, in the order of the code
ParleyKeysCommandLast(step, cmd) ==
  CASE step = 1 -> EchoOf(startMarker)
    [] step = 2 -> EchoOf(endMarker)
    [] OTHER -> cmd

ParleyKeys(step, cmd) ==
  CASE step = 1 -> EchoOf(startMarker)
    [] step = 2 -> cmd
    [] OTHER -> EchoOf(endMarker)

ParleyMarker(step, id) == IF step = 2 THEN "" ELSE id

\* the tokens randomUUID().slice(0, 8) can give
Tokens == {"1f0a9c3e", "7b2d4e61"}

LastCall == tmuxCalls[Len(tmuxCalls)]

Completed(status) ==
  [tmuxCalls EXCEPT ![Len(tmuxCalls)] = [@ EXCEPT !.status = status]]

\* the tmux server finds the pane the call names
PaneExists(call) == call.target # <<Undefined, Undefined>>

\* log.error(...); process.exit(1)
Fail(kind) ==
  /\ pc' = "exited"
  /\ printed' = [kind |-> "error", text |-> <<kind>>]
  /\ exitCode' = 1

(***************************************************************************)
(* The commands hail, survey and parley, one action per step between two   *)
(* awaits.                                                                 *)
(***************************************************************************)
\* a command that goes on after a denial
AfterCheckFallsThrough(verdict) == "allowed"

\* if (!access.allowed) { log.error(...); process.exit(1); }
AfterCheck(verdict) == IF verdict.allowed THEN "allowed" ELSE "exited"

CommandCheckAccess ==
  /\ pc = "start" /\ op \in {"hail", "survey", "parley"}
  /\ access' = checkAccess(registry, caller, target)
  /\ pc' = AfterCheck(access')
  /\ IF pc' = "exited"
       THEN /\ printed' = [kind |-> "error", text |-> <<access'.kind>>]
            /\ exitCode' = 1
       ELSE UNCHANGED <<printed, exitCode>>
  /\ reads' = Append(reads, registry)
  /\ UNCHANGED <<peer, life, config,
                 registry, caller, op, target, command, program, pane,
                 tmuxCalls, markerId, capture, result>>

sendToPane ==
  /\ pc = "allowed" /\ op = "hail"
  /\ LET r == Resolve(registry, target) IN
     IF r.ok
       THEN /\ tmuxCalls' = Append(tmuxCalls,
                 TmuxCall("send-keys", r.socket, r.target, command, "", 0))
            /\ pc' = "sendToPane"
            /\ UNCHANGED <<printed, exitCode>>
       ELSE Fail(r.error) /\ UNCHANGED tmuxCalls
  /\ reads' = Append(reads, registry)
  /\ UNCHANGED <<peer, life, config,
                 registry, caller, op, target, command, program, pane, access,
                 markerId, capture, result>>

HailSuccess ==
  /\ pc = "sendToPane" /\ PaneExists(LastCall)
  /\ tmuxCalls' = Completed("ok")
  /\ pane' = TypeLine(program, pane, LastCall.keys)
  /\ printed' = [kind |-> "success", text |-> <<"Hailed">>]
  /\ pc' = "exited"
  /\ exitCode' = 0
  /\ UNCHANGED <<reads, peer, life, config,
                 registry, caller, op, target, command, program, access,
                 markerId, capture, result>>

capturePane ==
  /\ pc = "allowed" /\ op = "survey"
  /\ LET r == Resolve(registry, target) IN
     IF r.ok
       THEN /\ tmuxCalls' = Append(tmuxCalls,
                 TmuxCall("capture-pane", r.socket, r.target, <<>>, "", CaptureLines))
            /\ pc' = "capturePane"
            /\ UNCHANGED <<printed, exitCode>>
       ELSE Fail(r.error) /\ UNCHANGED tmuxCalls
  /\ reads' = Append(reads, registry)
  /\ UNCHANGED <<peer, life, config,
                 registry, caller, op, target, command, program, pane, access,
                 markerId, capture, result>>

SurveyPrint ==
  /\ pc = "capturePane" /\ PaneExists(LastCall)
  /\ tmuxCalls' = Completed("ok")
  /\ capture' \in Screens(program, pane)
  /\ result' = capture'
  /\ printed' = [kind |-> "output", text |-> result']
  /\ pc' = "exited"
  /\ exitCode' = 0
  /\ UNCHANGED <<reads, peer, life, config,
                 registry, caller, op, target, command, program, pane, access,
                 markerId>>

execInPane ==
  /\ pc = "allowed" /\ op = "parley"
  /\ LET r == Resolve(registry, target) IN
     IF r.ok
       THEN /\ \E id \in Tokens :
                 /\ markerId' = id
                 /\ tmuxCalls' = Append(tmuxCalls,
                      TmuxCall("send-keys", r.socket, r.target,
                               ParleyKeys(1, command), ParleyMarker(1, id), 0))
            /\ pc' = "execStart"
            /\ UNCHANGED <<printed, exitCode>>
       ELSE Fail(r.error) /\ UNCHANGED <<tmuxCalls, markerId>>
  /\ reads' = Append(reads, registry)
  /\ UNCHANGED <<peer, life, config,
                 registry, caller, op, target, command, program, pane, access,
                 capture, result>>

\* the send-keys awaited has returned: the keys are typed, the next go out
execNextSendKeys(step) ==
  /\ PaneExists(LastCall)
  /\ pane' = TypeLine(program, pane, LastCall.keys)
  /\ tmuxCalls' = Append(Completed("ok"),
       TmuxCall("send-keys", LastCall.socket, LastCall.target,
                ParleyKeys(step, command), ParleyMarker(step, markerId), 0))
  /\ UNCHANGED <<reads, peer, life, config,
                 registry, caller, op, target, command, program, access,
                 markerId, capture, result, printed, exitCode>>

execInPaneCommand ==
  /\ pc = "execStart"
  /\ execNextSendKeys(2)
  /\ pc' = "execCommand"

execInPaneEndMarker ==
  /\ pc = "execCommand"
  /\ execNextSendKeys(3)
  /\ pc' = "execEnd"

execInPaneCapture ==
  /\ pc = "execEnd" /\ PaneExists(LastCall)
  /\ pane' = TypeLine(program, pane, LastCall.keys)
  /\ tmuxCalls' = Append(Completed("ok"),
       TmuxCall("capture-pane", LastCall.socket, LastCall.target, <<>>, "",
                CaptureLines))
  /\ pc' = "execCapture"
  /\ UNCHANGED <<reads, peer, life, config,
                 registry, caller, op, target, command, program, access,
                 markerId, capture, result, printed, exitCode>>

execInPaneReturn ==
  /\ pc = "execCapture" /\ PaneExists(LastCall)
  /\ tmuxCalls' = Completed("ok")
  /\ capture' \in Screens(program, pane)
  /\ result' = Extract(capture')
  /\ printed' = [kind |-> "output", text |-> result']
  /\ pc' = "exited"
  /\ exitCode' = 0
  /\ UNCHANGED <<reads, peer, life, config,
                 registry, caller, op, target, command, program, pane, access,
                 markerId>>

Awaiting ==
  pc \in {"sendToPane", "capturePane", "execStart", "execCommand", "execEnd",
          "execCapture"}

\* execAsync rejects and the call is issued again
TmuxFailsAndRetries ==
  /\ Awaiting
  /\ tmuxCalls' = Append(Completed("failed"), LastCall)
  /\ UNCHANGED <<reads, peer, life, config,
                 registry, caller, op, target, command, program, pane, access,
                 markerId, capture, result, pc, printed, exitCode>>

\* execAsync rejects: the catch block of the command reports it
TmuxFails ==
  /\ Awaiting
  /\ tmuxCalls' = Completed("failed")
  /\ Fail("TmuxError")
  /\ UNCHANGED <<reads, peer, life, config,
                 registry, caller, op, target, command, program, pane, access,
                 markerId, capture, result>>

\* currentService ? session.services[currentService] : null
currentServiceInfo(session, c) ==
  IF c \in {Undefined, ""} THEN [truthy |-> FALSE, value |-> PrototypeMember]
  ELSE PropertyRead(session.services, c)

\* currentServiceInfo?.canAccess || []
canAccessList(session, c) ==
  LET info == currentServiceInfo(session, c) IN
  IF info.truthy /\ info.value.canAccess.has
    THEN info.value.canAccess.list ELSE {}

\* what whoami writes
whoamiOutput(s, c) ==
  IF s.null THEN [kind |-> "warn", text |-> <<"Not in a harbor session">>]
  ELSE
    LET info == currentServiceInfo(s.info, c) IN
    [kind |-> "identity",
     text |-> << [session |-> s.info.session, socket |-> s.info.socket,
                  you |-> IF ~(c \in {Undefined, ""}) /\ info.truthy
                            THEN <<c, info.value.window>> ELSE <<"external">>,
                  canAccess |-> IF ~(c \in {Undefined, ""}) /\ info.truthy
                                  THEN canAccessList(s.info, c)
                                  ELSE {"all services"}] >>]

\* what context writes: the session, the pane of the caller, the table of
\* services and the access paragraph
contextOutput(s, c) ==
  IF s.null THEN [kind |-> "context", text |-> <<"No active harbor session found">>]
  ELSE
    LET current == ~(c \in {Undefined, ""})
        list == canAccessList(s.info, c) IN
    [kind |-> "context",
     text |-> << [session |-> s.info.session, socket |-> s.info.socket,
                  pane |-> IF current
                             THEN <<c, currentServiceInfo(s.info, c).value.window>>
                             ELSE <<>>,
                  table |-> [name \in DOMAIN s.info.services |->
                               IF name = c THEN "(you)"
                               ELSE IF ~current \/ name \in list THEN "yes"
                               ELSE "no"],
                  access |-> IF current THEN list ELSE {"all services"}] >>]

\* a whoami that removes the registry it has read
whoamiDropsRegistry ==
  /\ pc = "start" /\ op = "whoami"
  /\ reads' = Append(reads, registry)
  /\ printed' = whoamiOutput(getSessionInfo(registry), caller)
  /\ registry' = MissingFile
  /\ pc' = "exited"
  /\ exitCode' = 0
  /\ UNCHANGED <<peer, life, config, caller, op, target, command, program,
                 pane, access, tmuxCalls, markerId, capture, result>>

whoami ==
  /\ pc = "start" /\ op = "whoami"
  /\ reads' = Append(reads, registry)
  /\ printed' = whoamiOutput(getSessionInfo(registry), caller)
  /\ pc' = "exited"
  /\ exitCode' = 0
  /\ UNCHANGED <<peer, life, config,
                 registry, caller, op, target, command, program, pane, access,
                 tmuxCalls, markerId, capture, result>>

context ==
  /\ pc = "start" /\ op = "context"
  /\ reads' = Append(reads, registry)
  /\ printed' = contextOutput(getSessionInfo(registry), caller)
  /\ pc' = "exited"
  /\ exitCode' = 0
  /\ UNCHANGED <<peer, life, config,
                 registry, caller, op, target, command, program, pane, access,
                 tmuxCalls, markerId, capture, result>>

\* a scuttle running beside the command removes session.json
ScuttleRemovesRegistry ==
  /\ pc # "exited" /\ registry.file = "ok"
  /\ registry' = MissingFile
  /\ UNCHANGED <<reads, peer, life, config,
                 caller, op, target, command, program, pane, pc, access,
                 tmuxCalls, markerId, capture, result, printed, exitCode>>

(***************************************************************************)
(* Specification SpecCli: one invocation of hail, survey or parley, for    *)
(* every registry, caller and target against a pane running any program,   *)
(* and for a parley from outside against a shell or the test REPL with     *)
(* some scrollback.                                                        *)
(***************************************************************************)
MaxScrollback == 1

ScrollbackLines == { <<"x">>, <<>>, Prompt \o <<"y">> }

Scrollbacks ==
  {Lines2Text(ls) : ls \in UNION {[1..n -> ScrollbackLines] : n \in 0..MaxScrollback}}

Commands == { <<"echo", "sp", "X">>, <<"add", "sp", "2", "sp", "3">> }

ReplSession ==
  [file |-> "ok", session |-> "dev", socket |-> "harbor-dev",
   services |->
     [k \in {"repl", "web"} |->
        SessionServiceInfo(k, WindowOf(k),
          IF k = "web" THEN [has |-> TRUE, list |-> {"repl"}]
                       ELSE [has |-> TRUE, list |-> {}])]]

Started ==
  /\ pc = "start" /\ access = NoVerdict /\ tmuxCalls = <<>> /\ markerId = ""
  /\ capture = <<>> /\ result = <<>> /\ printed = Nothing /\ exitCode = -1
  /\ reads = <<>> /\ peer = NoPeer /\ life = NoLife /\ config = NoConfig

InitCli ==
  /\ Started
  /\ \/ /\ registry \in Registries
        /\ caller \in Callers
        /\ \/ op \in {"hail", "survey", "parley"} /\ target \in Names
           \/ op \in {"whoami", "context"} /\ target = Undefined
        /\ command = <<"echo", "sp", "X">>
        /\ program = "other"
        /\ pane = <<>>
     \/ /\ registry = ReplSession
        /\ caller \in {Undefined, "web"}
        /\ target = "repl"
        /\ op = "parley"
        /\ command \in Commands
        /\ program \in {"shell", "repl"}
        /\ pane \in {sb \o Prompt : sb \in Scrollbacks}

\* the process has exited and another harbor command is run in the same
\* project, by the same caller
NextCommand ==
  /\ pc = "exited" /\ program = "other"
  /\ pc' = "start" /\ access' = NoVerdict /\ tmuxCalls' = <<>> /\ markerId' = ""
  /\ capture' = <<>> /\ result' = <<>> /\ printed' = Nothing /\ exitCode' = -1
  /\ reads' = <<>>
  /\ \/ op' \in {"hail", "survey", "parley"} /\ target' \in Names
     \/ op' \in {"whoami", "context"} /\ target' = Undefined
  /\ UNCHANGED <<registry, caller, command, program, pane, peer, life, config>>

NextCli ==
  \/ CommandCheckAccess
  \/ sendToPane
  \/ HailSuccess
  \/ capturePane
  \/ SurveyPrint
  \/ execInPane
  \/ execInPaneCommand
  \/ execInPaneEndMarker
  \/ execInPaneCapture
  \/ execInPaneReturn
  \/ TmuxFails
  \/ whoami
  \/ context
  \/ NextCommand
  \/ ScuttleRemovesRegistry

SpecCli == InitCli /\ [][NextCli]_vars

(***************************************************************************)
(* Specification SpecRace: one invocation of hail, survey or parley while  *)
(* a scuttle removes session.json or a new launch writes it again.  The    *)
(* new launch is of a configuration in which repl and web have changed     *)
(* places (repl is in the window web had, web in the one repl had) and     *)
(* no service may address another.                                         *)
(***************************************************************************)
RelaunchedSession ==
  [file |-> "ok", session |-> "dev", socket |-> "harbor-dev",
   services |->
     [k \in {"repl", "web"} |->
        SessionServiceInfo(IF k = "repl" THEN "web" ELSE "repl",
                           WindowOf(IF k = "repl" THEN "web" ELSE "repl"),
                           [has |-> TRUE, list |-> {}])]]

\* a launch running beside the command writes session.json
LaunchRewritesRegistry ==
  /\ pc # "exited" /\ registry # RelaunchedSession
  /\ registry' = RelaunchedSession
  /\ UNCHANGED <<reads, peer, life, config,
                 caller, op, target, command, program, pane, pc, access,
                 tmuxCalls, markerId, capture, result, printed, exitCode>>

InitRace ==
  /\ InitCli
  /\ op \in {"hail", "survey", "parley"}

NextRace ==
  \/ CommandCheckAccess
  \/ sendToPane
  \/ HailSuccess
  \/ capturePane
  \/ SurveyPrint
  \/ execInPane
  \/ execInPaneCommand
  \/ execInPaneEndMarker
  \/ execInPaneCapture
  \/ execInPaneReturn
  \/ TmuxFails
  \/ ScuttleRemovesRegistry
  \/ LaunchRewritesRegistry

SpecRace == InitRace /\ [][NextRace]_vars

(***************************************************************************)
(* Specification SpecTwo: two parley invocations against the same pane, a  *)
(* shell.  The first is the invocation of SpecCli; the second (peer) is    *)
(* another process running execInPane with another markerId, one action    *)
(* per tmux command it has completed.                                      *)
(***************************************************************************)
\* a text with the markers of the two calls exchanged
SwapTokens(s) ==
  [i \in 1..Len(s) |->
     CASE s[i] = "S" -> "So" [] s[i] = "So" -> "S"
       [] s[i] = "E" -> "Eo" [] s[i] = "Eo" -> "E"
       [] OTHER -> s[i]]

PeerCommand == <<"echo", "sp", "Y">>

PeerStarted ==
  [pc |-> "start", command |-> PeerCommand, result |-> <<>>, inside |-> FALSE]

PeerSteps == <<"start", "execStart", "execCommand", "execEnd">>

\* the first invocation has typed its start marker and not yet its end marker
RegionOpen == pc \in {"execCommand", "execEnd"}

\* one send-keys of the peer: the keys are typed into the pane
PeerSendKeys ==
  /\ \E step \in 1..3 :
        /\ peer.pc = PeerSteps[step]
        /\ pane' = TypeLine(program, pane,
                      SwapTokens(ParleyKeys(step, peer.command)))
        /\ peer' = [peer EXCEPT !.pc = PeerSteps[step + 1],
                                !.inside = @ \/ RegionOpen]
  /\ UNCHANGED <<registry, caller, op, target, command, program, pc, access,
                 tmuxCalls, markerId, capture, result, printed, exitCode,
                 reads, life, config>>

\* its capture-pane and its extraction, with its own markers
PeerReturn ==
  /\ peer.pc = "execEnd"
  /\ \E screen \in Screens(program, pane) :
        peer' = [peer EXCEPT !.pc = "exited",
                             !.result = SwapTokens(Extract(SwapTokens(screen)))]
  /\ UNCHANGED <<registry, caller, op, target, command, program, pane, pc,
                 access, tmuxCalls, markerId, capture, result, printed,
                 exitCode, reads, life, config>>

InitTwo ==
  /\ pc = "start" /\ access = NoVerdict /\ tmuxCalls = <<>> /\ markerId = ""
  /\ capture = <<>> /\ result = <<>> /\ printed = Nothing /\ exitCode = -1
  /\ reads = <<>> /\ life = NoLife /\ config = NoConfig
  /\ registry = ReplSession
  /\ caller \in {Undefined, "web"}
  /\ target = "repl"
  /\ op = "parley"
  /\ command \in Commands
  /\ program = "shell"
  /\ pane \in {sb \o Prompt : sb \in Scrollbacks}
  /\ peer = PeerStarted

NextTwo ==
  \/ CommandCheckAccess
  \/ execInPane
  \/ execInPaneCommand
  \/ execInPaneEndMarker
  \/ execInPaneCapture
  \/ execInPaneReturn
  \/ PeerSendKeys
  \/ PeerReturn

SpecTwo == InitTwo /\ [][NextTwo]_vars

(***************************************************************************)
(* Specification SpecKeys: the command line sendToPane and execInPane hand *)
(* to exec(), character by character.  exec() runs it with /bin/sh -c; the *)
(* shell splits it into words and tmux send-keys reads each word as a key  *)
(* name or, failing that, as text to type.  The symbols of a command are   *)
(*   "a" a letter, "dq" a double quote, "q" a single quote, "bs" a         *)
(*   backslash, "$" a dollar sign, "bt" a backquote, "-" a dash, "sp" a    *)
(*   blank, and "Enter" the word Enter (a tmux key name).                  *)
(***************************************************************************)
MaxCommand == 3

CommandChars == {"a", "dq", "q", "bs", "$", "bt", "-", "sp", "Enter"}

CommandLines == UNION {[1..n -> CommandChars] : n \in 0..MaxCommand}

\* String.prototype.replace(/c/g, r)
RECURSIVE ReplaceAll(_, _, _)
ReplaceAll(s, c, r) ==
  IF s = <<>> THEN <<>>
  ELSE (IF Head(s) = c THEN r ELSE <<Head(s)>>) \o ReplaceAll(Tail(s), c, r)

\* the words after  tmux -L <socket> send-keys -t "<target>"  in sendToPane
sendToPaneLine(cmd) ==
  <<"dq">> \o ReplaceAll(cmd, "dq", <<"bs", "dq">>) \o <<"dq", "sp", "Enter">>

\* the same words in the second send-keys of execInPane
execInPaneLine(cmd) ==
  <<"q">> \o ReplaceAll(cmd, "q", <<"q", "bs", "q", "q">>) \o <<"q", "sp", "Enter">>

\* what a parameter expansion or a command substitution can put in a word
Expansions == {<<>>, <<"v">>}

\* $ expands when a parameter name follows ($a, $$, $-)
ParameterStart == {"a", "Enter", "$", "-"}

\* /bin/sh splitting the text s into words from position i on;
\* mode is "plain", "dq" (inside "...") or "sq" (inside '...'),
\* cur the word being read, inWord whether one has begun
RECURSIVE ShWords(_, _, _, _, _, _, _)
ShWords(s, val, i, mode, cur, inWord, argv) ==
  IF i > Len(s)
    THEN IF mode # "plain" THEN [ok |-> FALSE, argv |-> <<>>]
         ELSE [ok |-> TRUE, argv |-> IF inWord THEN Append(argv, cur) ELSE argv]
  ELSE
    LET c == s[i]
        n == IF i < Len(s) THEN s[i + 1] ELSE "eof"
        closing == {j \in (i + 1)..Len(s) : s[j] = "bt" /\ s[j - 1] # "bs"}
        Literal(x, k) == ShWords(s, val, k, mode, cur \o x, TRUE, argv) IN
    IF mode = "sq" THEN
      IF c = "q" THEN ShWords(s, val, i + 1, "plain", cur, TRUE, argv)
      ELSE Literal(<<c>>, i + 1)
    ELSE IF c = "bt" THEN
      IF closing = {} THEN [ok |-> FALSE, argv |-> <<>>]
      ELSE ShWords(s, val, Min(closing) + 1, mode, cur \o val,
                   inWord \/ mode = "dq" \/ val # <<>>, argv)
    ELSE IF c = "$" /\ n \in ParameterStart THEN
      ShWords(s, val, i + 2, mode, cur \o val,
              inWord \/ mode = "dq" \/ val # <<>>, argv)
    ELSE IF mode = "dq" THEN
      IF c = "dq" THEN ShWords(s, val, i + 1, "plain", cur, TRUE, argv)
      ELSE IF c = "bs" /\ n \in {"$", "bt", "dq", "bs"} THEN Literal(<<n>>, i + 2)
      ELSE Literal(<<c>>, i + 1)
    ELSE
      IF c = "sp" THEN
        ShWords(s, val, i + 1, "plain", <<>>, FALSE,
                IF inWord THEN Append(argv, cur) ELSE argv)
      ELSE IF c = "q" THEN ShWords(s, val, i + 1, "sq", cur, TRUE, argv)
      ELSE IF c = "dq" THEN ShWords(s, val, i + 1, "dq", cur, TRUE, argv)
      ELSE IF c = "bs" THEN
        (IF n = "eof" THEN ShWords(s, val, i + 1, "plain", cur, inWord, argv)
         ELSE Literal(<<n>>, i + 2))
      ELSE Literal(<<c>>, i + 1)

ShParse(s, val) == ShWords(s, val, 1, "plain", <<>>, FALSE, <<>>)

\* the names tmux knows as keys, and the key a name stands for
KeyNames == {<<"Enter">>}

EnterKey == "<Enter>"

\* tmux send-keys without -l: a word that is a key name presses the key,
\* any other word is typed
RECURSIVE SendKeysWords(_)
SendKeysWords(argv) ==
  IF argv = <<>> THEN <<>>
  ELSE (IF Head(argv) \in KeyNames THEN <<EnterKey>> ELSE Head(argv))
         \o SendKeysWords(Tail(argv))

\* a first word that starts with a dash is read as flags of send-keys
IsFlags(word) == Len(word) >= 2 /\ word[1] = "-"

\* the keystrokes the pane receives for the command line, and whether
\* exec() resolved
Delivered(line, val) ==
  LET sh == ShParse(line, val) IN
  IF ~sh.ok \/ (sh.argv # <<>> /\ IsFlags(sh.argv[1]))
    THEN [ok |-> FALSE, keys |-> <<>>]
  ELSE [ok |-> TRUE, keys |-> SendKeysWords(sh.argv)]

InitKeys ==
  /\ registry = ReplSession /\ caller = Undefined /\ target = "repl"
  /\ access = Allowed /\ program = "other" /\ pane = <<>>
  /\ tmuxCalls = <<>> /\ markerId = "" /\ capture = <<>>
  /\ result = <<>> /\ printed = Nothing /\ exitCode = -1
  /\ reads = <<>> /\ peer = NoPeer /\ life = NoLife /\ config = NoConfig
  /\ pc = "keys"
  /\ op \in {"hail", "parley"}
  /\ command \in CommandLines

\* await execAsync(... send-keys -t "<target>" <command> Enter) has settled:
\* pane holds the keystrokes received
SendKeysSettles(line) ==
  /\ pc = "keys"
  /\ \E val \in Expansions :
        LET d == Delivered(line, val) IN
        /\ pane' = d.keys
        /\ exitCode' = IF d.ok THEN 0 ELSE 1
  /\ pc' = "typed"
  /\ UNCHANGED <<registry, caller, op, target, command, program, access,
                 tmuxCalls, markerId, capture, result, printed, reads, peer,
                 life, config>>

sendToPaneKeys == op = "hail" /\ SendKeysSettles(sendToPaneLine(command))

execInPaneKeys == op = "parley" /\ SendKeysSettles(execInPaneLine(command))

NextKeys == sendToPaneKeys \/ execInPaneKeys

SpecKeys == InitKeys /\ [][NextKeys]_vars

(***************************************************************************)
(* Specification SpecCapture: capturePane against a pane of some height    *)
(* with some history.  tmux numbers the lines of a pane: 0 is the first    *)
(* row of the visible pane, -1 the last line of the history; a line stands *)
(* here for its number.  capture-pane -p -S -N prints from line -N (or     *)
(* from the oldest line the history holds) to the last visible row.        *)
(***************************************************************************)
MaxHistory == 4

MaxRows == 3

MaxCaptureLines == 4

\* the lines from number a to number b, in order
LinesFromTo(a, b) == [i \in 1..(b - a + 1) |-> a + i - 1]

PaneLines(history, rows) == LinesFromTo(0 - history, rows - 1)

\* stdout of  capture-pane -t <target> -p -S -<lines>
capturePaneOutput(p, lines) ==
  LinesFromTo(0 - Min({lines, p.history}), p.rows - 1)

InitCapture ==
  /\ registry = ReplSession /\ caller = Undefined /\ target = "repl"
  /\ access = Allowed /\ op = "survey" /\ command = <<>> /\ program = "other"
  /\ markerId = "" /\ capture = <<>>
  /\ result = <<>> /\ printed = Nothing /\ exitCode = -1
  /\ reads = <<ReplSession, ReplSession>> /\ peer = NoPeer
  /\ life = NoLife /\ config = NoConfig
  /\ pc = "capturePane"
  /\ \E history \in 0..MaxHistory, rows \in 1..MaxRows :
        pane = [history |-> history, rows |-> rows]
  /\ \E lines \in 1..MaxCaptureLines :
        tmuxCalls = <<TmuxCall("capture-pane", ReplSession.socket,
                               ReplSession.services["repl"].target, <<>>, "",
                               lines)>>

\* the capture-pane of capturePane returns and survey prints it
SurveyPrintLines ==
  /\ pc = "capturePane" /\ PaneExists(LastCall)
  /\ tmuxCalls' = Completed("ok")
  /\ capture' = capturePaneOutput(pane, LastCall.lines)
  /\ result' = capture'
  /\ printed' = [kind |-> "output", text |-> result']
  /\ pc' = "exited"
  /\ exitCode' = 0
  /\ UNCHANGED <<reads, peer, life, config,
                 registry, caller, op, target, command, program, pane, access,
                 markerId>>

NextCapture == SurveyPrintLines

SpecCapture == InitCapture /\ [][NextCapture]_vars

(***************************************************************************)
(* Specification SpecLife: the life of one tmux session.  launch (attached *)
(* or headless), anchor and scuttle are processes of their own; the        *)
(* session can also be killed from outside (tmux kill-session, Ctrl+q).    *)
(* life.after lists the executions of the configured after scripts.        *)
(* A script stands for its position in the configured list; the number     *)
(* fail picks the first script that exits non-zero or fails to spawn       *)
(* (0: none does).                                                         *)
(***************************************************************************)
MaxScripts == 2

\* an execute() that goes on after a script has failed
executeGoesOn(n, fail) ==
  [ran |-> [i \in 1..n |-> i], ok |-> fail = 0, failed |-> fail]

\* an execute() that runs the list from its end
executeBackwards(n, fail) ==
  [ran |-> [i \in 1..(IF fail = 0 THEN n ELSE fail) |-> n + 1 - i],
   ok |-> fail = 0, failed |-> fail]

\* execute(scripts, scriptType) for a list of n scripts: the scripts spawned,
\* in order, whether it resolved, and the script that made it reject
execute(n, fail) ==
  [ran |-> [i \in 1..(IF fail = 0 THEN n ELSE fail) |-> i],
   ok |-> fail = 0, failed |-> fail]

\* no script spawned yet
NotRun == [ran |-> <<>>, ok |-> TRUE, failed |-> 0]

Process(at) == [pc |-> at, code |-> -1]

\* process.exit(code), or the end of the handler
Exit(proc, code) == [life EXCEPT ![proc] = [pc |-> "exited", code |-> code]]

At(proc, at) == [life EXCEPT ![proc] = [pc |-> at, code |-> -1]]

\* execute(config.after, 'after') by a process, and whether the session
\* was running then
AfterScripts(proc, fail) ==
  LET run == execute(life.nAfter, fail) IN
  [by |-> proc, running |-> life.exists,
   ran |-> run.ran, ok |-> run.ok, failed |-> run.failed]

\* the life record l once proc has called execute(config.after, 'after') and
\* ended with the status code, or with 1 when a script failed; an empty list
\* executes nothing
AfterAndExit(proc, fail, code) ==
  IF life.nAfter = 0 THEN Exit(proc, code)
  ELSE [Exit(proc, IF fail = 0 THEN code ELSE 1)
        EXCEPT !.after = Append(@, AfterScripts(proc, fail))]

LifeFrame ==
  UNCHANGED <<caller, op, target, command, program, pane, pc, access,
              tmuxCalls, markerId, capture, result, printed, exitCode, reads,
              peer, config>>

InitLife ==
  /\ registry = MissingFile /\ caller = Undefined /\ target = Undefined
  /\ access = NoVerdict
  /\ op = "none" /\ command = <<>> /\ program = "other" /\ pane = <<>>
  /\ pc = "idle" /\ tmuxCalls = <<>> /\ markerId = "" /\ capture = <<>>
  /\ result = <<>> /\ printed = Nothing /\ exitCode = -1
  /\ reads = <<>> /\ peer = NoPeer /\ config = NoConfig
  /\ \E mode \in {"attached", "headless"}, tmux \in BOOLEAN,
        harborJson \in BOOLEAN,
        nBefore \in 0..MaxScripts, nAfter \in 0..MaxScripts :
        life = [mode |-> mode, tmux |-> tmux, harborJson |-> harborJson,
                exists |-> FALSE,
                nBefore |-> nBefore, nAfter |-> nAfter,
                launch |-> Process("start"), anchor |-> Process("idle"),
                scuttle |-> Process("idle"),
                deps |-> FALSE, before |-> NotRun, after |-> <<>>,
                killedBy |-> "none"]

\* launch without the TMUX check
launchIgnoresTmux ==
  /\ life.launch.pc = "start"
  /\ \E ok \in BOOLEAN, fail \in 0..life.nBefore :
        LET before == execute(life.nBefore, fail) IN
        life' = IF ~ok \/ ~life.harborJson
                  THEN [Exit("launch", 1) EXCEPT !.deps = TRUE]
                ELSE [(IF before.ok THEN At("launch", "devsh")
                                    ELSE Exit("launch", 1))
                      EXCEPT !.deps = TRUE, !.before = before]
  /\ UNCHANGED registry
  /\ LifeFrame

\* launch: the TMUX check, checkDependencies and the configuration checks
\* (ok tells whether they passed), the before scripts, then dev.sh is spawned
launch ==
  /\ life.launch.pc = "start"
  /\ \E ok \in BOOLEAN, fail \in 0..life.nBefore :
        LET before == execute(life.nBefore, fail) IN
        life' = IF life.mode = "attached" /\ life.tmux THEN Exit("launch", 1)
                ELSE IF ~ok \/ ~life.harborJson
                  THEN [Exit("launch", 1) EXCEPT !.deps = TRUE]
                ELSE [(IF before.ok THEN At("launch", "devsh")
                                    ELSE Exit("launch", 1))
                      EXCEPT !.deps = TRUE, !.before = before]
  /\ UNCHANGED registry
  /\ LifeFrame

\* dev.sh creates the session and writes session.json; headless it exits,
\* attached it runs tmux attach-session
devsh ==
  /\ life.launch.pc = "devsh"
  /\ life' = [At("launch", IF life.mode = "headless" THEN "closing"
                                                     ELSE "attached")
               EXCEPT !.exists = TRUE]
  /\ registry' = ReplSession
  /\ LifeFrame

\* dev.sh exits non-zero
devshFails ==
  /\ life.launch.pc = "devsh"
  /\ life' = Exit("launch", 1)
  /\ UNCHANGED registry
  /\ LifeFrame

\* the attached client of a process returns: the user detached, or the
\* session is gone
AttachReturns(proc) ==
  /\ life[proc].pc = "attached"
  /\ life' = At(proc, "closing")
  /\ UNCHANGED registry
  /\ LifeFrame

launchAttachReturns == AttachReturns("launch")

\* a close handler that runs the after scripts whatever the mode
runServicesCloseAnyMode ==
  /\ life.launch.pc = "closing"
  /\ \E fail \in 0..life.nAfter : life' = AfterAndExit("launch", fail, 0)
  /\ UNCHANGED registry
  /\ LifeFrame

\* child.on('close') of runServices with code 0
runServicesClose ==
  /\ life.launch.pc = "closing"
  /\ IF life.mode = "headless"
       THEN life' = Exit("launch", 0)
       ELSE \E fail \in 0..life.nAfter : life' = AfterAndExit("launch", fail, 0)
  /\ UNCHANGED registry
  /\ LifeFrame

anchor ==
  /\ life.anchor.pc = "idle"
  /\ life' = IF life.tmux \/ ~life.harborJson \/ ~life.exists
                THEN Exit("anchor", 1)
              ELSE At("anchor", "attached")
  /\ UNCHANGED registry
  /\ LifeFrame

anchorAttachReturns == AttachReturns("anchor")

\* attach.on('close') of anchor: has-session, then the after scripts when the
\* session is gone; code is the exit status of attach-session
anchorClose ==
  /\ life.anchor.pc = "closing"
  /\ \E fail \in 0..life.nAfter, code \in {0, 1} :
        life' = IF life.exists THEN Exit("anchor", code)
                ELSE AfterAndExit("anchor", fail, code)
  /\ UNCHANGED registry
  /\ LifeFrame

\* scuttle that goes on to kill-session whatever has-session answered
scuttleKillsUnchecked ==
  /\ life.scuttle.pc = "idle"
  /\ life' = IF ~life.harborJson THEN Exit("scuttle", 1)
              ELSE At("scuttle", "killing")
  /\ UNCHANGED registry
  /\ LifeFrame

\* scuttle: readHarborConfig, has-session
scuttle ==
  /\ life.scuttle.pc = "idle"
  /\ life' = IF ~life.harborJson THEN Exit("scuttle", 1)
              ELSE IF life.exists THEN At("scuttle", "killing")
              ELSE Exit("scuttle", 0)
  /\ UNCHANGED registry
  /\ LifeFrame

\* tmux kill-session -t <session>
scuttleKillSession ==
  /\ life.scuttle.pc = "killing"
  /\ life' = IF life.exists
                THEN [At("scuttle", "killed")
                      EXCEPT !.exists = FALSE, !.killedBy = "scuttle"]
                ELSE Exit("scuttle", 1)
  /\ UNCHANGED registry
  /\ LifeFrame

\* killSession.on('close') of scuttle with code 0
scuttleClose ==
  /\ life.scuttle.pc = "killed"
  /\ registry' = MissingFile
  /\ \E fail \in 0..life.nAfter : life' = AfterAndExit("scuttle", fail, 0)
  /\ LifeFrame

\* the session is killed without Harbor
ExternalKill ==
  /\ life.exists
  /\ life' = [life EXCEPT !.exists = FALSE, !.killedBy = "external"]
  /\ UNCHANGED registry
  /\ LifeFrame

NextLife ==
  \/ launch
  \/ devsh
  \/ devshFails
  \/ launchAttachReturns
  \/ runServicesClose
  \/ anchor
  \/ anchorAttachReturns
  \/ anchorClose
  \/ scuttle
  \/ scuttleKillSession
  \/ scuttleClose
  \/ ExternalKill

SpecLife == InitLife /\ [][NextLife]_vars

(***************************************************************************)
(* Specification SpecConfig: validateConfig on a harbor.json, and the      *)
(* registry the launch of an accepted configuration writes.  A service of  *)
(* the configuration is [name, path, canAccess]; name and path are         *)
(* Undefined when the key is absent, canAccess is [has, list] with list    *)
(* the array in its order.  before and after are [has, array, list] with   *)
(* a script as [path, command] telling which keys it has.  An error        *)
(* message is a tuple of its parts, Null the null validateConfig returns.  *)
(***************************************************************************)
MaxServices == 2

MaxCanAccess == 1

ConfigNames == {"repl", "web"}

\* services of a configuration: well-formed ones with any canAccess array
\* over the configured names and an unknown one, one without a name, one
\* without a path
ConfigServices ==
  [name : ConfigNames, path : {"./svc"},
   canAccess : {[has |-> FALSE, list |-> <<>>]} \cup
               [has : {TRUE},
                list : UNION {[1..n -> ConfigNames \cup {"ghost"}] :
                                n \in 0..MaxCanAccess}]]
  \cup {[name |-> Undefined, path |-> "./svc",
          canAccess |-> [has |-> FALSE, list |-> <<>>]],
         [name |-> "repl", path |-> Undefined,
          canAccess |-> [has |-> FALSE, list |-> <<>>]]}

\* the before or after key: absent, not an array, or an array of one script
ScriptLists ==
  {[has |-> FALSE, array |-> FALSE, list |-> <<>>],
   [has |-> TRUE, array |-> FALSE, list |-> <<>>]} \cup
  {[has |-> TRUE, array |-> TRUE, list |-> <<script>>] :
      script \in [path : BOOLEAN, command : BOOLEAN]}

Configs ==
  [array : {FALSE}, services : {<<>>}, before : ScriptLists,
   after : ScriptLists] \cup
  [array : {TRUE},
   services : UNION {[1..n -> ConfigServices] : n \in 0..MaxServices},
   before : ScriptLists, after : ScriptLists]

Null == <<>>

Range(f) == {f[i] : i \in DOMAIN f}

\* the canAccess loop without the test for a reference to the service itself
canAccessErrorAllowsSelf(service, serviceNames, j) ==
  LET F[i \in 1..(Len(service.canAccess.list) + 1)] ==
        IF i > Len(service.canAccess.list) THEN Null
        ELSE LET targetName == service.canAccess.list[i] IN
             IF targetName \notin serviceNames
               THEN <<"Service", service.name,
                      "has canAccess reference to unknown service", targetName>>
             ELSE F[i + 1]
  IN F[j]

\* for (const targetName of service.canAccess), from entry j on
canAccessError(service, serviceNames, j) ==
  LET F[i \in 1..(Len(service.canAccess.list) + 1)] ==
        IF i > Len(service.canAccess.list) THEN Null
        ELSE LET targetName == service.canAccess.list[i] IN
             IF targetName \notin serviceNames
               THEN <<"Service", service.name,
                      "has canAccess reference to unknown service", targetName>>
             ELSE IF targetName = service.name
               THEN <<"Service", service.name,
                      "cannot have canAccess reference to itself">>
             ELSE F[i + 1]
  IN F[j]

\* for (const service of config.services)
servicesError(services, serviceNames) ==
  LET F[i \in 1..(Len(services) + 1)] ==
        IF i > Len(services) THEN Null
        ELSE LET service == services[i] IN
             IF service.name = Undefined THEN <<"Service name is required">>
             ELSE IF service.path = Undefined
               THEN <<"Service path is required">>
             ELSE IF service.canAccess.has
                     /\ canAccessError(service, serviceNames, 1) # Null
               THEN canAccessError(service, serviceNames, 1)
             ELSE F[i + 1]
  IN F[1]

\* the checks of config.before and of config.after; kind is "Before" or
\* "After", the message counts the scripts from 0
scriptsError(scripts, kind) ==
  IF ~scripts.has THEN Null
  ELSE IF ~scripts.array THEN <<kind, "scripts must be an array">>
  ELSE LET F[i \in 1..(Len(scripts.list) + 1)] ==
             IF i > Len(scripts.list) THEN Null
             ELSE IF ~scripts.list[i].path
               THEN <<kind, "script", ToString(i - 1), "must have a path">>
             ELSE IF ~scripts.list[i].command
               THEN <<kind, "script", ToString(i - 1), "must have a command">>
             ELSE F[i + 1]
       IN F[1]

validateConfig(c) ==
  IF ~c.array THEN <<"Services must be an array">>
  ELSE LET serviceNames == {c.services[i].name : i \in 1..Len(c.services)} IN
       IF servicesError(c.services, serviceNames) # Null
         THEN servicesError(c.services, serviceNames)
       ELSE IF scriptsError(c.before, "Before") # Null
         THEN scriptsError(c.before, "Before")
       ELSE scriptsError(c.after, "After")

InitConfig ==
  /\ config \in Configs
  /\ registry = MissingFile /\ caller = Undefined /\ target = Undefined
  /\ access = NoVerdict
  /\ op = "none" /\ command = <<>> /\ program = "other" /\ pane = <<>>
  /\ pc = "start" /\ tmuxCalls = <<>> /\ markerId = "" /\ capture = <<>>
  /\ result = <<>> /\ printed = Nothing /\ exitCode = -1
  /\ reads = <<>> /\ peer = NoPeer /\ life = NoLife

ConfigFrame ==
  UNCHANGED <<caller, op, target, command, program, pane, access, tmuxCalls,
              markerId, capture, printed, reads, peer, life, config>>

\* runServices: validateConfig(config), exit 1 on a message
validateConfigCall ==
  /\ pc = "start"
  /\ result' = validateConfig(config)
  /\ pc' = IF validateConfig(config) = Null THEN "validated" ELSE "exited"
  /\ exitCode' = IF validateConfig(config) = Null THEN exitCode ELSE 1
  /\ UNCHANGED registry
  /\ ConfigFrame

\* the launch workflow writes session.json: one entry per configured service
\* (for a name configured twice, the later one), window numbers in the
\* order of the configuration, canAccess as configured
writeSession ==
  /\ pc = "validated"
  /\ LET names == {config.services[i].name : i \in 1..Len(config.services)}
         last(k) == CHOOSE i \in 1..Len(config.services) :
                      /\ config.services[i].name = k
                      /\ \A j \in 1..Len(config.services) :
                            config.services[j].name = k => j <= i
     IN registry' =
          [file |-> "ok", session |-> "dev", socket |-> "harbor-dev",
           services |->
             [k \in names |->
                SessionServiceInfo(k, last(k),
                  [has |-> config.services[last(k)].canAccess.has,
                   list |-> Range(config.services[last(k)].canAccess.list)])]]
  /\ pc' = "written"
  /\ UNCHANGED <<result, exitCode>>
  /\ ConfigFrame

NextConfig ==
  \/ validateConfigCall
  \/ writeSession

SpecConfig == InitConfig /\ [][NextConfig]_vars

(***************************************************************************)
(* Claims about the extraction (specification SpecExtract)                 *)
(***************************************************************************)
Extracted == pc = "extracted"

Positions(sym) == {i \in 1..Len(capture) : capture[i] = sym}

\* the start marker occurs and the end marker occurs after it
MarkersInOrder ==
  \E i \in Positions("S") : \E j \in Positions("E") : i < j

\* the text strictly between position i and position j of the capture
Between(i, j) == SubSeq(capture, i + 1, j - 1)

\* C7 (as claimed): whenever the capture holds the start marker and after it
\* the end marker, the extracted region is the text strictly between the
\* first start marker of the capture and the first end marker after it, so
\* what is returned is the clean-up of that text and never the fallback.
C7_FirstStartMarker ==
  (Extracted /\ MarkersInOrder) =>
     LET i == Min(Positions("S"))
         j == Min({k \in Positions("E") : k > i}) IN
     result = CleanUp(Between(i, j))

\* positions of a start marker that is followed at once by a newline and
\* later by an end marker
LineEndStarts ==
  {i \in Positions("S") :
     /\ i + 1 \in Positions("nl")
     /\ \E j \in Positions("E") : j > i + 1}

\* C7 (amended): the region is the text strictly between the newline that
\* ends the first start marker standing at the end of a line (among those
\* with an end marker after them) and the first end marker after it; with no
\* such start marker the fallback is taken, even when both markers occur.
C7_FirstStartMarkerAtLineEnd ==
  Extracted =>
     IF LineEndStarts = {}
       THEN result = Fallback(capture)
       ELSE LET i == Min(LineEndStarts)
                j == Min({k \in Positions("E") : k > i + 1}) IN
            result = CleanUp(Between(i + 1, j))

\* both markers occur in order, the first start marker is the typed command
\* (followed by a quote), and the region starts at a later one
C7_Witness ==
  /\ Extracted /\ MarkersInOrder
  /\ LineEndStarts # {}
  /\ Min(LineEndStarts) > Min(Positions("S"))
  /\ result # NoOutput

\* the last line of the region is the typed end-marker command, cut off
\* where the end marker begins
CutOffEcho(line) ==
  /\ Len(line) >= 3
  /\ SubSeq(line, Len(line) - 2, Len(line)) = <<"echo", "sp", "q">>

IsMarkerEcho(line) ==
  \/ Includes(line, EchoOf(startMarker))
  \/ Includes(line, EchoOf(endMarker))

\* the lines of the region without a cut-off echo at its end
WithoutCutOff(lines) ==
  IF CutOffEcho(lines[Len(lines)]) THEN SubSeq(lines, 1, Len(lines) - 1) ELSE lines

\* C9: when the markers are matched, what parley returns holds no blank line,
\* no line that echoes the start- or end-marker command (whole, or cut off by
\* the extraction boundary) and no leading or trailing whitespace: it is the
\* remaining lines of the region, in order, joined by newlines.
C9_OnlyOutputLines ==
  (Extracted /\ LineEndStarts # {}) =>
     LET i == Min(LineEndStarts)
         j == Min({k \in Positions("E") : k > i + 1})
         lines == SplitLines(Between(i + 1, j))
         remaining == SelectSeq(WithoutCutOff(lines),
                        LAMBDA l : Trim(l) # <<>> /\ ~IsMarkerEcho(l)) IN
     /\ result = Trim(result)
     /\ result = OrNoOutput(Trim(JoinLines(remaining)))

\* the region between the markers after the lines.filter, joined and trimmed
PostProcessed ==
  LET i == Min(LineEndStarts)
      j == Min({k \in Positions("E") : k > i + 1}) IN
  Trim(JoinLines(SelectSeq(SplitLines(Between(i + 1, j)), KeepLine)))

\* C11: execInPane never returns the empty string: when the post-processed
\* region between the markers is empty it returns "(no output)", and so does
\* the fallback for an empty capture.
C11_NeverEmpty ==
  Extracted =>
     /\ result # <<>>
     /\ (LineEndStarts # {} /\ PostProcessed = <<>>) => result = NoOutput

C11_Witness ==
  /\ Extracted /\ LineEndStarts # {} /\ PostProcessed = <<>>
  /\ result = NoOutput

(***************************************************************************)
(* Claims about the markers of other calls (specification SpecTokens)      *)
(***************************************************************************)
Count(s, sym) == Cardinality({i \in 1..Len(s) : s[i] = sym})

\* C12: the extraction is bound to the markerId of this call: markers of an
\* older call never open or close the region; the region runs from this
\* call's start marker to the first end marker of this call after it, the
\* older markers inside it are returned as output, and with no marker pair
\* of this call the fallback is taken whatever older markers the capture
\* holds.
C12_BoundToToken ==
  Extracted =>
     IF LineEndStarts = {}
       THEN result = Fallback(capture)
       ELSE LET i == Min(LineEndStarts)
                j == Min({k \in Positions("E") : k > i + 1})
                region == Between(i + 1, j) IN
            /\ result = CleanUp(region)
            /\ Count(result, "Eo") = Count(region, "Eo")
            /\ Count(result, "So") = Count(region, "So")

\* an older start marker stands before the region and an older end marker
\* inside it
C12_Witness ==
  /\ Extracted /\ LineEndStarts # {}
  /\ \E k \in Positions("So") : k < Min(LineEndStarts) /\ k + 1 \in Positions("nl")
  /\ \E k \in Positions("Eo") :
        /\ k > Min(LineEndStarts)
        /\ k < Min({e \in Positions("E") : e > Min(LineEndStarts) + 1})
  /\ Count(result, "Eo") = 1

(***************************************************************************)
(* Claims about the commands (specification SpecCli)                       *)
(***************************************************************************)
Exited == pc = "exited"

\* C4: in hail, survey and parley a denial by checkAccess means that no tmux
\* command is issued and the process exits non-zero; hail prints its
\* confirmation and exits 0 only after its send-keys has succeeded.
C4_DeniedIssuesNothing ==
  /\ (Checked /\ ~access.allowed) =>
        /\ tmuxCalls = <<>>
        /\ Exited /\ exitCode = 1 /\ printed.kind = "error"
  /\ (op = "hail" /\ (printed.kind = "success" \/ exitCode = 0)) =>
        /\ printed.kind = "success" /\ exitCode = 0
        /\ Len(tmuxCalls) = 1
        /\ tmuxCalls[1].cmd = "send-keys"
        /\ tmuxCalls[1].status = "ok"

C4_Witness ==
  /\ op = "parley" /\ Exited /\ access.kind = "AccessDenied"
  /\ tmuxCalls = <<>> /\ exitCode = 1

\* C5: sendToPane, capturePane and execInPane resolve the target first: with
\* no registry they fail with the no-session error, with a target that is no
\* key of services with the unknown-service error, and no tmux command has
\* been issued in either case; a survey with no registry file exits non-zero
\* with no tmux call.
C5_ResolveBeforeTmux ==
  /\ (Checked /\ access.allowed /\ pc # "allowed") =>
        /\ (registry.file = "ok" /\ ~Known(target)) =>
              /\ tmuxCalls = <<>>
              /\ Exited /\ exitCode = 1
              /\ printed = [kind |-> "error", text |-> <<"UnknownService">>]
        /\ tmuxCalls = <<>> =>
              /\ Exited /\ exitCode = 1
              /\ printed.kind = "error"
              /\ printed.text \in {<<"NoSession">>, <<"UnknownService">>}
              /\ registry.file # "ok" => printed.text = <<"NoSession">>
  /\ (op = "survey" /\ Checked /\ access.kind = "NoSession") =>
        (tmuxCalls = <<>> /\ Exited /\ exitCode = 1)

ParleyCmds == <<"send-keys", "send-keys", "send-keys", "capture-pane">>

\* what the n-th tmux call of a parley has to be
ParleyCallOk(n) ==
  LET call == tmuxCalls[n] IN
  /\ call.cmd = ParleyCmds[n]
  /\ call.socket = tmuxCalls[1].socket
  /\ call.target = tmuxCalls[1].target
  /\ n = 1 => (call.keys = EchoOf(startMarker) /\ call.marker = markerId)
  /\ n = 2 => (call.keys = command /\ call.marker = "")
  /\ n = 3 => (call.keys = EchoOf(endMarker) /\ call.marker = markerId)
  /\ n = 4 => (call.lines = CaptureLines /\ call.keys = <<>>)

\* C6: a parley that runs to completion has issued exactly four tmux calls
\* against the resolved target: send-keys of the start-marker echo, send-keys
\* of the command, send-keys of the end-marker echo, capture-pane of the last
\* 500 lines; both markers carry the token drawn for this call; at no moment
\* is the command out before the start marker or the end marker before the
\* command.
C6_FourCallsInOrder ==
  op = "parley" =>
     /\ Len(tmuxCalls) <= 4
     /\ \A n \in 1..Len(tmuxCalls) : ParleyCallOk(n)
     /\ tmuxCalls = <<>> <=> markerId = ""
     /\ tmuxCalls # <<>> => markerId \in Tokens
     /\ (tmuxCalls # <<>> /\ Known(target)) =>
           /\ tmuxCalls[1].socket = registry.socket
           /\ tmuxCalls[1].target = registry.services[target].target
     /\ (Exited /\ exitCode = 0) =>
           /\ Len(tmuxCalls) = 4
           /\ \A n \in 1..4 : tmuxCalls[n].status = "ok"

C6_Witness ==
  /\ op = "parley" /\ Exited /\ exitCode = 0 /\ program = "shell"
  /\ Len(tmuxCalls) = 4

\* C8: against a pane that echoes what is typed and prints the command's
\* output (a shell, an echo-style REPL), parley(target, "echo X") returns
\* exactly X, whatever the scrollback held before.
C8_RoundTrip ==
  (op = "parley" /\ Exited /\ exitCode = 0 /\ program \in {"shell", "repl"}
     /\ command = <<"echo", "sp", "X">>) =>
     result = <<"X">>

Captured ==
  /\ op = "parley" /\ Exited
  /\ Len(tmuxCalls) = 4 /\ tmuxCalls[4].status = "ok"

\* C10 (as claimed): with no matching marker pair in the capture, parley
\* returns the whole capture trimmed, and exits 0.
C10_FallbackIsTrimmedCapture ==
  (Captured /\ LineEndStarts = {}) =>
     /\ exitCode = 0
     /\ printed = [kind |-> "output", text |-> Trim(capture)]

\* C10 (amended): with no matching marker pair in the capture, parley raises
\* no error and exits 0, and returns the whole capture trimmed, or the
\* sentinel "(no output)" when the trimmed capture is empty.
C10_FallbackTrimmedOrSentinel ==
  (Captured /\ LineEndStarts = {}) =>
     /\ exitCode = 0
     /\ result = (IF Trim(capture) = <<>> THEN NoOutput ELSE Trim(capture))
     /\ printed = [kind |-> "output", text |-> result]

C10_Witness ==
  /\ Captured /\ LineEndStarts = {} /\ MarkersInOrder
  /\ program = "repl"
  /\ result = Trim(capture)

(***************************************************************************)
(* Claims about two concurrent invocations (specification SpecTwo)         *)
(***************************************************************************)
\* a text that holds something the peer typed or its command printed
Foreign(s) == \E i \in 1..Len(s) : s[i] \in {"So", "Eo", "Y"}

\* C13: nothing keeps two execInPane calls on one pane apart: a send-keys of
\* the peer can land between the start and the end marker of the first call,
\* and what the first call then returns holds the peer's typed command or
\* its output, which it holds in no other case.
C13_NoMutualExclusion ==
  (op = "parley" /\ Exited /\ exitCode = 0) =>
     (Foreign(result) <=> peer.inside)

\* the first call returned the output of the peer's command, and the peer
\* returned the output of the first call's
C13_Witness ==
  /\ op = "parley" /\ Exited /\ exitCode = 0
  /\ command = <<"echo", "sp", "X">>
  /\ Count(result, "Y") > 0
  /\ peer.pc = "exited" /\ Count(peer.result, "X") > 0

(***************************************************************************)
(* Claims about the keystrokes (specification SpecKeys)                    *)
(***************************************************************************)
Typed == pc = "typed"

\* C14: for every command, hail delivers to the pane exactly the characters
\* of the command as typed text and then one Enter; nothing of the command
\* is interpreted by the invoking shell or by tmux, and the call succeeds.
C14_HailTypesCommand ==
  (Typed /\ op = "hail") =>
     /\ exitCode = 0
     /\ pane = command \o <<EnterKey>>

\* C15: for every command, single quotes included, the second send-keys of
\* parley delivers exactly the characters of the command and then one Enter.
C15_ParleyTypesCommand ==
  (Typed /\ op = "parley") =>
     /\ exitCode = 0
     /\ pane = command \o <<EnterKey>>

(***************************************************************************)
(* Claims about capturePane (specification SpecCapture)                    *)
(***************************************************************************)
\* C16: capturePane(target, N) returns at most N lines of the pane for every
\* N >= 1, and all the lines of the pane, without error, when the pane holds
\* fewer than N; it issues no send-keys.
C16_AtMostNLines ==
  (op = "survey" /\ Exited) =>
     LET N == tmuxCalls[1].lines
         all == PaneLines(pane.history, pane.rows) IN
     /\ Len(result) <= N
     /\ Len(all) <= N => result = all
     /\ exitCode = 0
     /\ \A n \in 1..Len(tmuxCalls) : tmuxCalls[n].cmd = "capture-pane"

(***************************************************************************)
(* Claims about the registry file (specification SpecCli)                  *)
(***************************************************************************)
\* the step is one of the running command
CommandStep ==
  \/ pc' # pc \/ reads' # reads \/ tmuxCalls' # tmuxCalls
  \/ printed' # printed \/ pane' # pane

\* C17: no step of hail, survey, parley, whoami or context creates, changes
\* or removes the registry file, in any sequence of these commands; so the
\* target each service name resolves to stays what it was.
C17_CommandsLeaveRegistry ==
  [][CommandStep =>
       /\ registry' = registry
       /\ \A name \in Names : Resolve(registry', name) = Resolve(registry, name)]_vars

\* a second command has run to its end on the registry the first one found
C17_Witness ==
  /\ op = "whoami" /\ Exited /\ exitCode = 0
  /\ registry \in SessionInfos /\ reads = <<registry>>
  /\ printed.kind = "identity"

\* C19: an invocation of hail, survey, parley, whoami or context reads the
\* registry file at most once, and the access decision and the resolution of
\* the target are made on that one snapshot.
C19_OneRegistryRead ==
  /\ Len(reads) <= 1
  /\ (Checked /\ reads # <<>>) => access = checkAccess(reads[1], caller, target)
  /\ (tmuxCalls # <<>> /\ reads # <<>>) =>
        /\ tmuxCalls[1].socket = Resolve(reads[1], target).socket
        /\ tmuxCalls[1].target = Resolve(reads[1], target).target

(***************************************************************************)
(* Claims about the life of a session (specification SpecLife)             *)
(***************************************************************************)
Ran(proc) == \E i \in 1..Len(life.after) : life.after[i].by = proc

\* the session was created and exists no more
SessionEnded == registry # MissingFile /\ ~life.exists

\* a process has seen the session gone and finished handling it
TeardownHandled ==
  \/ life.scuttle.pc = "exited" /\ Ran("scuttle")
  \/ life.anchor.pc = "exited" /\ Ran("anchor")
  \/ /\ life.launch.pc = "exited"
     /\ \E i \in 1..Len(life.after) :
           life.after[i].by = "launch" /\ ~life.after[i].running

\* C18: once the end of the session has been handled, by scuttle or by an
\* anchor or attached launch that found the session gone, no registry file
\* is left.
C18_RegistryDeletedOnTeardown ==
  (TeardownHandled /\ ~life.exists) => registry.file # "ok"

RunsBy(proc) == SelectSeq(life.after, LAMBDA e : e.by = proc)

\* scuttle found the session, killed it and has ended
ScuttleDone == life.killedBy = "scuttle" /\ life.scuttle.pc = "exited"

AllScripts(n) == [i \in 1..n |-> i]

DevShSpawned ==
  \/ life.launch.pc \in {"devsh", "attached", "closing"}
  \/ life.exists \/ life.killedBy # "none" \/ registry # MissingFile

\* C22: launch runs the before scripts one after the other in the configured
\* order and spawns dev.sh only when all of them have exited 0; when script i
\* fails, the scripts after it are never run, dev.sh is never spawned, launch
\* runs no after script and exits 1.
C22_BeforeScriptsGateLaunch ==
  /\ \E k \in 0..life.nBefore : life.before.ran = AllScripts(k)
  /\ DevShSpawned =>
        (life.before.ok /\ life.before.ran = AllScripts(life.nBefore))
  /\ ~life.before.ok =>
        /\ life.before.ran = AllScripts(life.before.failed)
        /\ ~DevShSpawned
        /\ life.after = <<>>
        /\ life.launch = [pc |-> "exited", code |-> 1]

\* the first of two before scripts failed
C22_Witness ==
  /\ life.nBefore = 2 /\ life.before.failed = 1 /\ life.before.ran = <<1>>
  /\ life.launch = [pc |-> "exited", code |-> 1]
  /\ life.scuttle.pc = "exited"

\* C23: with TMUX set, an attached launch and anchor exit 1 before anything
\* else (no dependency check, no before script, no session created or
\* attached); a headless launch is not blocked by it.
C23_TmuxBlocksAttaching ==
  /\ (life.tmux /\ life.mode = "attached") =>
        /\ life.launch.pc \in {"start", "exited"}
        /\ life.launch.pc = "exited" => life.launch.code = 1
        /\ ~life.deps /\ life.before = NotRun
        /\ ~DevShSpawned /\ life.after = <<>>
  /\ life.tmux =>
        /\ life.anchor.pc \in {"idle", "exited"}
        /\ life.anchor.pc = "exited" => life.anchor.code = 1
        /\ ~Ran("anchor")
  /\ (life.mode = "headless" /\ life.launch.pc # "start") => life.deps

\* inside tmux an attached launch and anchor have both been refused
C23_Witness ==
  /\ life.tmux /\ life.mode = "attached" /\ life.nBefore = 2
  /\ life.launch = [pc |-> "exited", code |-> 1]
  /\ life.anchor = [pc |-> "exited", code |-> 1]

(***************************************************************************)
(* Claims about the configuration (specification SpecConfig)               *)
(***************************************************************************)
Validated == pc \in {"validated", "written"}

ScuttleFindsNoSession ==
  /\ life.scuttle.pc = "idle" /\ life'.scuttle.pc # "idle"
  /\ ~life.exists

\* it kills nothing, runs no after script and deletes nothing
ScuttleTouchesNothing ==
  /\ life'.scuttle.pc = "exited"
  /\ life'.killedBy = life.killedBy /\ life'.exists = life.exists
  /\ life'.after = life.after
  /\ registry' = registry

Viewed(view) ==
  /\ Exited /\ op = view /\ Len(reads) = 1 /\ reads[1].file = "ok"

\* C26: the views agree with the enforcement: for every registry and caller
\* and every service S other than the caller, context shows S as accessible
\* exactly when checkAccess(S) allows that caller; the caller's own row
\* shows (you); whoami reports access to all services exactly when the
\* caller is outside the pane graph.
C26_ViewsAgreeWithCheckAccess ==
  /\ Viewed("context") =>
        \A S \in DOMAIN reads[1].services :
           printed.text[1].table[S] =
             IF S = caller THEN "(you)"
             ELSE IF checkAccess(reads[1], caller, S).allowed THEN "yes"
             ELSE "no"
  /\ Viewed("whoami") =>
        (printed.text[1].canAccess = {"all services"}
           <=> caller \notin DOMAIN reads[1].services)

(***************************************************************************)
(* More claims about the commands (specification SpecCli)                  *)
(***************************************************************************)
\* C27: no transport operation retries: in hail, survey and parley each tmux
\* call is issued at most once per invocation, and after a tmux call that
\* fails the invocation issues no further tmux call and exits non-zero with
\* the error reported.
C27_NoRetry ==
  op \in {"hail", "survey", "parley"} =>
     /\ Len(tmuxCalls) <= (IF op = "parley" THEN 4 ELSE 1)
     /\ \A n \in 1..Len(tmuxCalls) :
           /\ tmuxCalls[n].cmd =
                 CASE op = "hail" -> "send-keys"
                   [] op = "survey" -> "capture-pane"
                   [] op = "parley" -> ParleyCmds[n]
           /\ n < Len(tmuxCalls) => tmuxCalls[n].status = "ok"
           /\ tmuxCalls[n].status = "failed" =>
                 /\ n = Len(tmuxCalls)
                 /\ Exited /\ exitCode = 1
                 /\ printed = [kind |-> "error", text |-> <<"TmuxError">>]

\* the command injection of a parley has failed after the start marker went
\* out: the end marker is never injected
C27_Witness ==
  /\ op = "parley" /\ Exited /\ exitCode = 1
  /\ Len(tmuxCalls) = 2
  /\ tmuxCalls[1].status = "ok" /\ tmuxCalls[2].status = "failed"
  /\ tmuxCalls[2].keys = command

(***************************************************************************)
(* Claims about the after scripts (specification SpecLife)                 *)
(***************************************************************************)
\* the executions of after script i, by any process
Executions(i) ==
  {<<n, k>> \in (1..Len(life.after)) \X (1..MaxScripts) :
      k <= Len(life.after[n].ran) /\ life.after[n].ran[k] = i}

\* C28: for one session every configured after script is executed at most
\* once in total, whatever the interleaving of an attached launch, an anchor
\* client and a scuttle that observe its end.
C28_AfterScriptsAtMostOnce ==
  \A i \in 1..life.nAfter : Cardinality(Executions(i)) <= 1

\* C30: after scripts are never executed while the session is still
\* running: when an attached client returns because the user detached,
\* neither anchor nor an attached launch runs them; they run only once the
\* session no longer exists.
C30_AfterScriptsOnlyOnceGone ==
  \A n \in 1..Len(life.after) : ~life.after[n].running

(***************************************************************************)
(* Claims about a registry that changes (specification SpecRace)           *)
(***************************************************************************)
\* C29: an invocation of hail, survey or parley that passed checkAccess
\* sends its tmux commands to the socket and target that the registry the
\* access check was evaluated on gives the service, also when the file is
\* removed or written again meanwhile.
C29_ActsOnCheckedEntry ==
  (tmuxCalls # <<>> /\ target \in DOMAIN reads[1].services) =>
     \A n \in 1..Len(tmuxCalls) :
        /\ tmuxCalls[n].socket = reads[1].socket
        /\ tmuxCalls[n].target = reads[1].services[target].target

====
